---- MODULE Spec2Model ----
(***************************************************************************)
(* Model of csv_filter.py: one run of main() of the Streamlit "CSV Column  *)
(* Chooser".  A run uploads a CSV, reads it into a DataFrame, lets the     *)
(* user pick columns in a multiselect, projects the DataFrame onto the     *)
(* picked columns, serialises the projection and offers it for download.   *)
(*                                                                         *)
(* Texts are sequences of one-character strings.  The pandas reader and    *)
(* writer and the Streamlit widgets are modelled by what they do with the  *)
(* default arguments the program passes.                                   *)
(***************************************************************************)
EXTENDS Integers, Sequences, FiniteSets, TLC

\* ---------------------------------------------------------------- bounds
\* Longest uploaded file, in characters.
MaxLen == 6
\* Most requests the user makes in the multiselect during one run.
MaxPicks == 2

\* Characters an uploaded file is made of: a letter, the delimiter, the
\* line terminator and the quote character.
Alphabet == {"a", ",", "\n", "\""}

\* A variable of main holds None (also: not assigned yet) or a value.
None == <<>>
Some(x) == <<x>>
Val(o) == o[1]
\* The missing cell value.
NaN == <<"NaN">>

\* ------------------------------------------------------- sequence helpers
Range(s) == {s[i] : i \in DOMAIN s}

SeqsUpTo(S, n) == UNION {[1..k -> S] : k \in 0..n}

NoDuplicates(s) == \A i, j \in DOMAIN s : s[i] = s[j] => i = j

IsPrefix(s, t) == Len(s) <= Len(t) /\ \A i \in DOMAIN s : s[i] = t[i]

RECURSIVE Flatten(_)
Flatten(ss) == IF ss = <<>> THEN <<>> ELSE Head(ss) \o Flatten(Tail(ss))

\* Decimal digits of a natural number, as text (f"{i}").
RECURSIVE Str(_)
Str(n) ==
    LET d == <<"0", "1", "2", "3", "4", "5", "6", "7", "8", "9">>
    IN  IF n < 10 THEN <<d[n + 1]>> ELSE Str(n \div 10) \o <<d[(n % 10) + 1]>>

\* ------------------------------------------------ pd.read_csv: tokenizer
\* The C tokenizer of pandas with the defaults of read_csv: delimiter ",",
\* quotechar '"', doublequote, skip_blank_lines, on_bad_lines="error".
\* tk.state is the tokenizer state, tk.field the characters pushed to the
\* current field, tk.line the fields of the current line, tk.lines the
\* finished lines, tk.err the error raised ("" while there is none).
TokStart == [state |-> "START_RECORD", field |-> <<>>, line |-> <<>>,
             lines |-> <<>>, err |-> ""]

push_char(tk, c) == [tk EXCEPT !.field = tk.field \o <<c>>]

end_field(tk) == [tk EXCEPT !.line = tk.line \o <<tk.field>>, !.field = <<>>]

\* end_line: the header line and the first data line may have any number
\* of fields; a later line with more fields than the line before it is a
\* bad line, a line with fewer is padded with empty fields.
end_line(tk) ==
    LET idx    == Len(tk.lines)
        fields == Len(tk.line)
        ex     == IF idx > 0 THEN Len(tk.lines[idx]) ELSE -1
        padded == IF idx >= 1 /\ fields < ex
                  THEN tk.line \o [k \in 1..(ex - fields) |-> <<>>]
                  ELSE tk.line
    IN  IF idx > 1 /\ fields > ex
        THEN [tk EXCEPT !.err = "ParserError: Error tokenizing data",
                        !.state = "START_RECORD", !.line = <<>>]
        ELSE [tk EXCEPT !.lines = tk.lines \o <<padded>>, !.line = <<>>,
                        !.state = "START_RECORD"]

start_field(tk, c) ==
    CASE c = "\n" -> end_line(end_field(tk))
      [] c = "\"" -> [tk EXCEPT !.state = "IN_QUOTED_FIELD"]
      [] c = ","  -> [end_field(tk) EXCEPT !.state = "START_FIELD"]
      [] OTHER    -> [push_char(tk, c) EXCEPT !.state = "IN_FIELD"]

tokenize_char(tk, c) ==
    CASE tk.state = "START_RECORD" ->
            IF c = "\n" THEN tk ELSE start_field(tk, c)
      [] tk.state = "START_FIELD" -> start_field(tk, c)
      [] tk.state = "IN_FIELD" ->
            CASE c = "\n" -> end_line(end_field(tk))
              [] c = ","  -> [end_field(tk) EXCEPT !.state = "START_FIELD"]
              [] OTHER    -> push_char(tk, c)
      [] tk.state = "IN_QUOTED_FIELD" ->
            IF c = "\"" THEN [tk EXCEPT !.state = "QUOTE_IN_QUOTED_FIELD"]
                        ELSE push_char(tk, c)
      [] tk.state = "QUOTE_IN_QUOTED_FIELD" ->
            CASE c = "\"" -> [push_char(tk, c) EXCEPT !.state = "IN_QUOTED_FIELD"]
              [] c = ","  -> [end_field(tk) EXCEPT !.state = "START_FIELD"]
              [] c = "\n" -> end_line(end_field(tk))
              [] OTHER    -> [push_char(tk, c) EXCEPT !.state = "IN_FIELD"]

parser_handle_eof(tk) ==
    CASE tk.state = "START_RECORD" -> tk
      [] tk.state = "IN_QUOTED_FIELD" ->
            [tk EXCEPT !.err = "ParserError: EOF inside string"]
      [] OTHER -> end_line(end_field(tk))

RECURSIVE tokenize_from(_, _, _)
tokenize_from(tk, text, i) ==
    IF tk.err # "" THEN tk
    ELSE IF i > Len(text) THEN parser_handle_eof(tk)
    ELSE tokenize_from(tokenize_char(tk, text[i]), text, i + 1)

tokenize_all(text) == tokenize_from(TokStart, text, 1)

\* ------------------------------------------------- pd.read_csv: the frame
\* An empty header field is named "Unnamed: <position>".
Unnamed(i) == <<"U", "n", "n", "a", "m", "e", "d", ":", " ">> \o Str(i)

\* Duplicate header names are mangled: the k-th repetition of a name gets
\* the suffix ".k".  (Uploaded files contain no "." here, so a mangled
\* name never collides with a name of the header.)
dedup_names(names) ==
    [i \in DOMAIN names |->
        LET earlier == Cardinality({j \in 1..(i - 1) : names[j] = names[i]})
        IN  IF earlier = 0 THEN names[i]
            ELSE names[i] \o <<".">> \o Str(earlier)]

header_names(header) ==
    dedup_names([i \in DOMAIN header |->
                    IF header[i] = <<>> THEN Unnamed(i - 1) ELSE header[i]])

\* An empty field is a missing value.
cell_value(field) == IF field = <<>> THEN NaN ELSE field

\* read_csv: the first line is the header; when the first data line has
\* more fields than the header the surplus leading fields become the
\* index, not columns.  The result is [ok, df] or [ok, err].
read_csv(text) ==
    LET tk == tokenize_all(text)
    IN  IF tk.err # "" THEN [ok |-> FALSE, err |-> tk.err]
        ELSE IF tk.lines = <<>>
        THEN [ok |-> FALSE, err |-> "EmptyDataError: No columns to parse from file"]
        ELSE
          LET header  == tk.lines[1]
              data    == Tail(tk.lines)
              n       == Len(header)
              width   == IF data # <<>> /\ Len(data[1]) > n THEN Len(data[1]) ELSE n
              leading == width - n
          IN  [ok |-> TRUE,
               df |-> [columns |-> header_names(header),
                       rows    |-> [r \in DOMAIN data |->
                                      [j \in 1..n |-> cell_value(data[r][leading + j])]]]]

\* Variant of empty: tests the columns only (len(df.columns) == 0).
empty_columns_only(df) == Len(df.columns) = 0

\* DataFrame.empty: any axis of length zero.
empty(df) == Len(df.columns) = 0 \/ Len(df.rows) = 0

\* ------------------------------------------------------- df[selected_cols]
\* Positions of a label among the columns, in column order.
RECURSIVE get_loc(_, _, _)
get_loc(columns, name, i) ==
    IF i > Len(columns) THEN <<>>
    ELSE (IF columns[i] = name THEN <<i>> ELSE <<>>) \o get_loc(columns, name, i + 1)

\* Variant of getitem: also drops the rows that hold a missing value
\* (df[key].dropna()).
getitem_dropna(df, key) ==
    IF \E k \in DOMAIN key : key[k] \notin Range(df.columns)
    THEN [ok |-> FALSE, err |-> "KeyError: not in index"]
    ELSE LET indexer == Flatten([k \in DOMAIN key |-> get_loc(df.columns, key[k], 1)])
             taken   == [r \in DOMAIN df.rows |->
                            [k \in DOMAIN indexer |-> df.rows[r][indexer[k]]]]
         IN  [ok |-> TRUE,
              df |-> [columns |-> [k \in DOMAIN indexer |-> df.columns[indexer[k]]],
                      rows    |-> SelectSeq(taken, LAMBDA row : NaN \notin Range(row))]]

\* Variant of getitem: keeps the listed columns in the order they have in
\* the source frame (df.loc[:, df.columns.isin(key)]).
getitem_source_order(df, key) ==
    IF \E k \in DOMAIN key : key[k] \notin Range(df.columns)
    THEN [ok |-> FALSE, err |-> "KeyError: not in index"]
    ELSE LET indexer == Flatten([j \in DOMAIN df.columns |->
                                   IF df.columns[j] \in Range(key) THEN <<j>> ELSE <<>>])
         IN  [ok |-> TRUE,
              df |-> [columns |-> [k \in DOMAIN indexer |-> df.columns[indexer[k]]],
                      rows    |-> [r \in DOMAIN df.rows |->
                                     [k \in DOMAIN indexer |-> df.rows[r][indexer[k]]]]]]

\* Variant of getitem: labels the columns as listed but takes the data by
\* position in the list instead of by label.
getitem_positional(df, key) ==
    IF \E k \in DOMAIN key : key[k] \notin Range(df.columns)
    THEN [ok |-> FALSE, err |-> "KeyError: not in index"]
    ELSE [ok |-> TRUE,
          df |-> [columns |-> key,
                  rows    |-> [r \in DOMAIN df.rows |->
                                 [k \in DOMAIN key |->
                                    df.rows[r][IF k <= Len(df.columns) THEN k ELSE 1]]]]]

\* DataFrame.__getitem__ with a list of labels: a new frame whose columns
\* are the listed labels in list order, every row kept in place; KeyError
\* when a label is not a column.  The source frame is not touched.
getitem(df, key) ==
    IF \E k \in DOMAIN key : key[k] \notin Range(df.columns)
    THEN [ok |-> FALSE, err |-> "KeyError: not in index"]
    ELSE LET indexer == Flatten([k \in DOMAIN key |-> get_loc(df.columns, key[k], 1)])
         IN  [ok |-> TRUE,
              df |-> [columns |-> [k \in DOMAIN indexer |-> df.columns[indexer[k]]],
                      rows    |-> [r \in DOMAIN df.rows |->
                                     [k \in DOMAIN indexer |-> df.rows[r][indexer[k]]]]]]

\* ------------------------------------------------------------ to_csv_bytes
\* csv.writer with QUOTE_MINIMAL: a field holding the delimiter, the quote
\* character or a line break is quoted, its quotes doubled.
needs_quotes(text) == \E i \in DOMAIN text : text[i] \in {",", "\"", "\n", "\r"}

csv_field(value) ==
    LET text == IF value = NaN THEN <<>> ELSE value
    IN  IF needs_quotes(text)
        THEN <<"\"">> \o Flatten([i \in DOMAIN text |->
                            IF text[i] = "\"" THEN <<"\"", "\"">> ELSE <<text[i]>>])
                      \o <<"\"">>
        ELSE text

\* One record: the fields joined by the delimiter, then the terminator.  A
\* record of a single empty field is written as "" so that it is not a
\* blank line.
csv_record(values) ==
    LET fields == [i \in DOMAIN values |-> csv_field(values[i])]
    IN  (IF Len(fields) = 1 /\ fields[1] = <<>>
         THEN <<"\"", "\"">>
         ELSE Flatten([i \in DOMAIN fields |->
                         IF i = 1 THEN fields[i] ELSE <<",">> \o fields[i]]))
        \o <<"\n">>

\* Variant of to_csv: index=True, the default of DataFrame.to_csv: every
\* record starts with the index field (empty in the header, the row number
\* in a row).
to_csv_with_index(df) ==
    csv_record(<<NaN>> \o df.columns)
    \o Flatten([r \in DOMAIN df.rows |-> csv_record(<<Str(r - 1)>> \o df.rows[r])])

\* DataFrame.to_csv(index=False): the header record, then one record per
\* row; the index is not written.
to_csv(df) ==
    csv_record(df.columns) \o Flatten([r \in DOMAIN df.rows |-> csv_record(df.rows[r])])

\* str.encode("utf-8") on the characters a frame can hold here (all ASCII).
CodePoint ==
    [c \in Alphabet \cup {".", " ", ":", "U", "n", "m", "e", "d", "b",
                          "0", "1", "2", "3", "4", "5", "6", "7", "8", "9"} |->
        CASE c = "\n" -> 10  [] c = " " -> 32  [] c = "\"" -> 34
          [] c = ","  -> 44  [] c = "." -> 46  [] c = ":" -> 58
          [] c = "U"  -> 85  [] c = "a" -> 97  [] c = "b" -> 98
          [] c = "d"  -> 100 [] c = "e" -> 101 [] c = "m" -> 109
          [] c = "n"  -> 110
          [] c = "0"  -> 48  [] c = "1" -> 49  [] c = "2" -> 50
          [] c = "3"  -> 51  [] c = "4" -> 52  [] c = "5" -> 53
          [] c = "6"  -> 54  [] c = "7" -> 55  [] c = "8" -> 56
          [] c = "9"  -> 57]

encode(text) == [i \in DOMAIN text |-> CodePoint[text[i]]]

to_csv_bytes(df) == encode(to_csv(df))

\* ------------------------------------------------------------ st.multiselect
\* A name that is not a column of any uploaded file (a stale or typed-in
\* request).
StaleName == <<"b">>

\* The widget's value.  Untouched, it is the default.  Otherwise the user
\* cleared it and made the requests in ui.picks one after the other: a
\* request is honoured only when it is one of the options and is not
\* selected already (the drop-down offers nothing else), and the value
\* lists the honoured requests in the order they were made.
RECURSIVE add_picks(_, _, _, _)
add_picks(options, value, picks, i) ==
    IF i > Len(picks) THEN value
    ELSE add_picks(options,
                   IF picks[i] \in Range(options) /\ picks[i] \notin Range(value)
                   THEN value \o <<picks[i]>> ELSE value,
                   picks, i + 1)

\* Variant of multiselect: requests are not checked against the options.
RECURSIVE add_picks_unchecked(_, _, _)
add_picks_unchecked(value, picks, i) ==
    IF i > Len(picks) THEN value
    ELSE add_picks_unchecked(IF picks[i] \notin Range(value)
                             THEN value \o <<picks[i]>> ELSE value,
                             picks, i + 1)

multiselect_unchecked(options, default, ui) ==
    IF ui.touched THEN add_picks_unchecked(<<>>, ui.picks, 1) ELSE default

\* Variant of multiselect: an option already selected can be selected
\* again.
multiselect_repeating(options, default, ui) ==
    IF ui.touched THEN SelectSeq(ui.picks, LAMBDA p : p \in Range(options)) ELSE default

multiselect(options, default, ui) ==
    IF ui.touched THEN add_picks(options, <<>>, ui.picks, 1) ELSE default

\* --------------------------------------------------------------- the run
\* pc is the statement of main() the run is at, trace the statements it has
\* executed, outcome the status message shown last; the other variables
\* are the locals of main() and the data handed to the download button.
VARIABLES pc, uploaded_file, df, ui, selected_cols, filtered_df, csv_bytes,
          download, outcome, trace

vars == <<pc, uploaded_file, df, ui, selected_cols, filtered_df, csv_bytes,
          download, outcome, trace>>

Files == SeqsUpTo(Alphabet, MaxLen)

Init ==
    /\ pc = "file_uploader"
    /\ uploaded_file = None
    /\ df = None
    /\ ui = None
    /\ selected_cols = None
    /\ filtered_df = None
    /\ csv_bytes = None
    /\ download = None
    /\ outcome = None
    /\ trace = <<>>

\* st.stop() after a status message.
Stop(level, text) ==
    /\ outcome' = Some([level |-> level, text |-> text])
    /\ pc' = "stopped"

\* uploaded_file = st.file_uploader(...): None or the uploaded file.
FileUploader ==
    /\ pc = "file_uploader"
    /\ \E f \in {None} \cup {Some(t) : t \in Files} : uploaded_file' = f
    /\ pc' = "check_upload"
    /\ trace' = trace \o <<"upload">>
    /\ UNCHANGED <<df, ui, selected_cols, filtered_df, csv_bytes, download, outcome>>

\* if uploaded_file is None: st.info; st.stop()
CheckUpload ==
    /\ pc = "check_upload"
    /\ trace' = trace \o <<"upload_check">>
    /\ IF uploaded_file = None
       THEN Stop("info", "Awaiting CSV upload")
       ELSE pc' = "read_csv" /\ UNCHANGED outcome
    /\ UNCHANGED <<uploaded_file, df, ui, selected_cols, filtered_df, csv_bytes, download>>

\* try: df = pd.read_csv(uploaded_file)  except: st.error; st.stop()
ReadCsv ==
    /\ pc = "read_csv"
    /\ trace' = trace \o <<"parse">>
    /\ LET res == read_csv(Val(uploaded_file))
       IN  IF res.ok
           THEN df' = Some(res.df) /\ pc' = "check_empty" /\ UNCHANGED outcome
           ELSE Stop("error", "Could not read CSV") /\ UNCHANGED df
    /\ UNCHANGED <<uploaded_file, ui, selected_cols, filtered_df, csv_bytes, download>>

\* Variant of CheckEmpty: the warning is shown but st.stop() is missing.
CheckEmpty_nostop ==
    /\ pc = "check_empty"
    /\ trace' = trace \o <<"empty_check">>
    /\ IF empty(Val(df))
       THEN outcome' = Some([level |-> "warning",
                             text |-> "The uploaded CSV appears to be empty"])
       ELSE UNCHANGED outcome
    /\ pc' = "multiselect"
    /\ UNCHANGED <<uploaded_file, df, ui, selected_cols, filtered_df, csv_bytes, download>>

\* if df.empty: st.warning; st.stop()   (then the preview, display only)
CheckEmpty ==
    /\ pc = "check_empty"
    /\ trace' = trace \o <<"empty_check">>
    /\ IF empty(Val(df))
       THEN Stop("warning", "The uploaded CSV appears to be empty")
       ELSE pc' = "multiselect" /\ UNCHANGED outcome
    /\ UNCHANGED <<uploaded_file, df, ui, selected_cols, filtered_df, csv_bytes, download>>

\* column_options = df.columns.tolist(); selected_cols = st.multiselect(...)
\* ui is what the user did with the widget: nothing, or cleared it and
\* made up to MaxPicks requests.
Multiselect ==
    /\ pc = "multiselect"
    /\ trace' = trace \o <<"select">>
    /\ LET column_options == Val(df).columns
       IN  \E touched \in BOOLEAN :
           \E picks \in SeqsUpTo(Range(column_options) \cup {StaleName}, MaxPicks) :
              /\ touched \/ picks = <<>>
              /\ ui' = Some([touched |-> touched, picks |-> picks])
              /\ selected_cols' = Some(multiselect(column_options, column_options,
                                                   [touched |-> touched, picks |-> picks]))
    /\ pc' = "check_selection"
    /\ UNCHANGED <<uploaded_file, df, filtered_df, csv_bytes, download, outcome>>

\* Variant of CheckSelection: the selection is not checked.
CheckSelection_nostop ==
    /\ pc = "check_selection"
    /\ trace' = trace \o <<"selection_check">>
    /\ pc' = "project"
    /\ UNCHANGED <<uploaded_file, df, ui, selected_cols, filtered_df, csv_bytes,
                   download, outcome>>

\* if not selected_cols: st.info; st.stop()
CheckSelection ==
    /\ pc = "check_selection"
    /\ trace' = trace \o <<"selection_check">>
    /\ IF Val(selected_cols) = <<>>
       THEN Stop("info", "Select at least one column to continue")
       ELSE pc' = "project" /\ UNCHANGED outcome
    /\ UNCHANGED <<uploaded_file, df, ui, selected_cols, filtered_df, csv_bytes, download>>

\* Variant of Project: the projection is also assigned to df
\* (df = filtered_df = df[selected_cols]).
Project_inplace ==
    /\ pc = "project"
    /\ trace' = trace \o <<"projection">>
    /\ LET res == getitem(Val(df), Val(selected_cols))
       IN  IF res.ok
           THEN /\ filtered_df' = Some(res.df)
                /\ df' = Some(res.df)
                /\ pc' = "to_csv_bytes"
                /\ UNCHANGED outcome
           ELSE Stop("exception", res.err) /\ UNCHANGED <<filtered_df, df>>
    /\ UNCHANGED <<uploaded_file, ui, selected_cols, csv_bytes, download>>

\* filtered_df = df[selected_cols]   (then the preview, display only).  A
\* KeyError is not caught: the run ends with the exception.
Project ==
    /\ pc = "project"
    /\ trace' = trace \o <<"projection">>
    /\ LET res == getitem(Val(df), Val(selected_cols))
       IN  IF res.ok
           THEN filtered_df' = Some(res.df) /\ pc' = "to_csv_bytes" /\ UNCHANGED outcome
           ELSE Stop("exception", res.err) /\ UNCHANGED filtered_df
    /\ UNCHANGED <<uploaded_file, df, ui, selected_cols, csv_bytes, download>>

\* csv_bytes = to_csv_bytes(filtered_df)
Serialize ==
    /\ pc = "to_csv_bytes"
    /\ trace' = trace \o <<"serialization">>
    /\ csv_bytes' = Some(to_csv_bytes(Val(filtered_df)))
    /\ pc' = "download_button"
    /\ UNCHANGED <<uploaded_file, df, ui, selected_cols, filtered_df, download, outcome>>

\* st.download_button(data=csv_bytes, ...); st.success(...)
DownloadButton ==
    /\ pc = "download_button"
    /\ trace' = trace \o <<"download">>
    /\ download' = Some([data |-> Val(csv_bytes), file_name |-> "filtered_columns.csv",
                         mime |-> "text/csv"])
    /\ outcome' = Some([level |-> "success", text |-> "Ready"])
    /\ pc' = "done"
    /\ UNCHANGED <<uploaded_file, df, ui, selected_cols, filtered_df, csv_bytes>>

Next ==
    \/ FileUploader
    \/ CheckUpload
    \/ ReadCsv
    \/ CheckEmpty
    \/ Multiselect
    \/ CheckSelection
    \/ Project
    \/ Serialize
    \/ DownloadButton

Spec == Init /\ [][Next]_vars

\* ------------------------------------------------------------ properties
Projected == filtered_df # None

\* The cell of frame d in row r under the column named c.
Cell(d, r, c) == d.rows[r][CHOOSE j \in DOMAIN d.columns : d.columns[j] = c]

\* C1: the projected document has exactly as many rows as the source
\* document.
ProjectionPreservesRowCount ==
    Projected => Len(Val(filtered_df).rows) = Len(Val(df).rows)

ProjectionPreservesRowCountWitness ==
    /\ Projected
    /\ Len(Val(df).rows) >= 2
    /\ Len(Val(selected_cols)) < Len(Val(df).columns)
    /\ \E r \in DOMAIN Val(df).rows : NaN \in Range(Val(df).rows[r])

\* C2: the columns of the projected document are the selected names, in
\* the order of the selection.
ProjectionOrderFaithful ==
    Projected => Val(filtered_df).columns = Val(selected_cols)

ProjectionOrderFaithfulWitness ==
    /\ Projected
    /\ \E i, j \in DOMAIN Val(df).columns :
          /\ i < j
          /\ Val(selected_cols) = <<Val(df).columns[j], Val(df).columns[i]>>

\* C3: every cell of the projected document equals the cell of the source
\* document in the same row under the same column name, rows keep their
\* order, and no column outside the selection appears.
ProjectionRowFaithful ==
    Projected =>
        LET src == Val(df)
            out == Val(filtered_df)
        IN  /\ DOMAIN out.rows = DOMAIN src.rows
            /\ Range(out.columns) \subseteq Range(Val(selected_cols))
            /\ \A r \in DOMAIN out.rows :
                  /\ Len(out.rows[r]) = Len(out.columns)
                  /\ \A k \in DOMAIN out.columns :
                        out.rows[r][k] = Cell(src, r, out.columns[k])
            /\ \A c \in Range(Val(selected_cols)) : c \in Range(out.columns)

ProjectionRowFaithfulWitness ==
    /\ Projected
    /\ Len(Val(df).rows) >= 2
    /\ Val(df).rows[1] # Val(df).rows[2]
    /\ Len(Val(df).columns) >= 2
    /\ Val(selected_cols) = <<Val(df).columns[2]>>
    /\ Val(df).rows[1][1] # Val(df).rows[1][2]

\* C4: with an empty selection the run stops at the selection check with
\* the "select at least one column" message: no projected document, no
\* output bytes and no download are produced, and the run does not succeed.
EmptySelectionRejected ==
    (selected_cols # None /\ Val(selected_cols) = <<>>) =>
        /\ filtered_df = None
        /\ csv_bytes = None
        /\ download = None
        /\ pc \in {"check_selection", "stopped"}
        /\ pc = "stopped" =>
              /\ Val(outcome).level # "success"
              /\ Val(outcome).text = "Select at least one column to continue"

EmptySelectionRejectedWitness ==
    /\ pc = "stopped"
    /\ selected_cols # None
    /\ Val(selected_cols) = <<>>
    /\ Val(ui).touched

EmptyDocumentRejected ==
    /\ (df # None /\ pc # "check_empty"
        /\ (Len(Val(df).rows) = 0 \/ Len(Val(df).columns) = 0)) =>
          /\ pc = "stopped"
          /\ Val(outcome) = [level |-> "warning",
                             text |-> "The uploaded CSV appears to be empty"]
    /\ (outcome # None /\ Val(outcome).level \in {"warning", "error"}) =>
          /\ pc = "stopped"
          /\ (Val(outcome).level = "error") <=> (df = None)
          /\ selected_cols = None
          /\ filtered_df = None
          /\ csv_bytes = None
          /\ download = None

EmptyDocumentRejectedWitness ==
    /\ pc = "stopped"
    /\ df # None
    /\ Len(Val(df).rows) = 0
    /\ Len(Val(df).columns) >= 2
    /\ Val(outcome).level = "warning"

\* Position of the first request for name c among the requests.
FirstRequest(picks, c) == CHOOSE i \in DOMAIN picks :
                              /\ picks[i] = c
                              /\ \A j \in 1..(i - 1) : picks[j] # c

decode(bytes) == [i \in DOMAIN bytes |-> CHOOSE c \in DOMAIN CodePoint : CodePoint[c] = bytes[i]]

\* The records of a CSV text, each the sequence of its fields: fields end
\* at a delimiter and records at a line break outside quotes; inside
\* quotes a doubled quote stands for one quote character.  st is "U"
\* outside quotes, "Q" inside, "QQ" after a quote seen inside.
RECURSIVE CsvRecords(_, _, _, _, _, _)
CsvRecords(text, i, st, field, rec, recs) ==
    IF i > Len(text)
    THEN IF field = <<>> /\ rec = <<>> /\ st = "U" THEN recs
         ELSE recs \o <<rec \o <<field>>>>
    ELSE LET c == text[i]
         IN  CASE st = "Q" /\ c = "\"" -> CsvRecords(text, i + 1, "QQ", field, rec, recs)
               [] st = "Q" /\ c # "\"" -> CsvRecords(text, i + 1, "Q", field \o <<c>>, rec, recs)
               [] st = "QQ" /\ c = "\"" -> CsvRecords(text, i + 1, "Q", field \o <<c>>, rec, recs)
               [] st # "Q" /\ c = "," -> CsvRecords(text, i + 1, "U", <<>>, rec \o <<field>>, recs)
               [] st # "Q" /\ c = "\n" ->
                      CsvRecords(text, i + 1, "U", <<>>, <<>>, recs \o <<rec \o <<field>>>>)
               [] st = "U" /\ c = "\"" -> CsvRecords(text, i + 1, "Q", field, rec, recs)
               [] OTHER -> CsvRecords(text, i + 1, "U", field \o <<c>>, rec, recs)

\* C8: the serialised bytes hold the header record first, with the column
\* names in the document's column order, then one record per row in row
\* order, and every record has as many fields as the document has columns
\* (no index column).
SerializedHeaderAndRows ==
    csv_bytes # None =>
        LET doc  == Val(filtered_df)
            recs == CsvRecords(decode(Val(csv_bytes)), 1, "U", <<>>, <<>>, <<>>)
        IN  /\ Len(recs) = 1 + Len(doc.rows)
            /\ recs[1] = doc.columns
            /\ \A i \in DOMAIN recs : Len(recs[i]) = Len(doc.columns)
            /\ \A r \in DOMAIN doc.rows : \A k \in DOMAIN doc.columns :
                  cell_value(recs[r + 1][k]) = doc.rows[r][k]

SerializedHeaderAndRowsWitness ==
    /\ csv_bytes # None
    /\ Len(Val(filtered_df).columns) >= 2
    /\ Len(Val(filtered_df).rows) >= 1
    /\ \E k \in DOMAIN Val(filtered_df).columns : Val(filtered_df).rows[1][k] = <<",">>

\* The statements of main() in program order.
StepOrder == <<"upload", "upload_check", "parse", "empty_check", "select",
               "selection_check", "projection", "serialization", "download">>

\* The statement at which each failure message is issued.
FailedAt(text) ==
    CASE text = "Awaiting CSV upload" -> 2
      [] text = "Could not read CSV" -> 3
      [] text = "The uploaded CSV appears to be empty" -> 4
      [] text = "Select at least one column to continue" -> 6
      [] OTHER -> 0

\* C9: the statements of a run execute in program order, a failed check is
\* the last statement of its run, and download bytes exist only when a
\* file was uploaded, parsed to a non-empty document and a non-empty
\* selection was made.
ErrorsAreTerminal ==
    /\ IsPrefix(trace, StepOrder)
    /\ (outcome # None /\ Val(outcome).level # "success") =>
          /\ pc = "stopped"
          /\ trace = SubSeq(StepOrder, 1, FailedAt(Val(outcome).text))
          /\ filtered_df = None /\ csv_bytes = None /\ download = None
    /\ pc = "stopped" => outcome # None /\ Val(outcome).level # "success"
    /\ (csv_bytes # None \/ download # None) =>
          /\ uploaded_file # None
          /\ df # None /\ ~empty(Val(df))
          /\ selected_cols # None /\ Val(selected_cols) # <<>>
          /\ Projected
    /\ download # None => Val(download).data = Val(csv_bytes)

ErrorsAreTerminalWitness ==
    /\ pc = "stopped"
    /\ Val(outcome).level = "error"
    /\ uploaded_file # None
    /\ Val(uploaded_file) # <<>>

\* C10: after the projection and the serialisation the source document is
\* still the document that parsing produced.
SourceDocumentUnchanged ==
    pc \in {"to_csv_bytes", "download_button", "done"} =>
        /\ df # None
        /\ Val(df) = read_csv(Val(uploaded_file)).df

SourceDocumentUnchangedWitness ==
    /\ pc = "done"
    /\ Len(Val(filtered_df).columns) < Len(Val(df).columns)
    /\ Val(filtered_df).columns # SubSeq(Val(df).columns, 1, Len(Val(filtered_df).columns))

====
